---- MODULE Spec2Model ----
(***************************************************************************)
(* Model of src/segment-tree.cpp: the lazy-propagation segment tree        *)
(* SegTree<Node, Op> instantiated with the min/max Node and the set/add Op *)
(* of the same file.                                                       *)
(*                                                                         *)
(* The three arrays of SegTree are the variables tree, hasPending and      *)
(* pending; the recursive member functions are RECURSIVE operators over a  *)
(* record [tree, hasPending, pending] and each public entry point is one   *)
(* action.  val, last and pre are history variables: the element values   *)
(* the valid updates so far should have produced, and, in the              *)
(* specifications that record calls, the last public call and the arrays   *)
(* as they were when it started.                                           *)
(***************************************************************************)
EXTENDS Integers, Sequences, FiniteSets

VARIABLES status, size, tree, hasPending, pending, last, pre, val, steps

vars == <<status, size, tree, hasPending, pending, last, pre, val, steps>>

(* ------------------------------ bounds -------------------------------- *)

\* largest element count passed to the constructor
MaxN == 3
\* largest number of update calls in one run
MaxOps == 2

\* the seed arrays of the runs that stay inside (-INF, INF): all zero, as
\* the global arr of main() is, and all different
SeedArrays == {[k \in 0..(MaxN - 1) |-> 0], [k \in 0..(MaxN - 1) |-> k]}

\* the arguments of the set and of the add operations
SetArgs == {2}
AddArgs == {1}

(* ------------------------- Node (min/max) ----------------------------- *)

INF == 1000000000

Min(a, b) == IF a <= b THEN a ELSE b
Max(a, b) == IF a >= b THEN a ELSE b

\* Node(): minVal(INF), maxVal(-INF)
NodeDefault == [minVal |-> INF, maxVal |-> -INF]

\* Node(int idx, int val)
NodeOf(idx, v) == [minVal |-> v, maxVal |-> v]

\* Node::join
Join(a, b) ==
  [minVal |-> Min(a.minVal, b.minVal), maxVal |-> Max(a.maxVal, b.maxVal)]

(* ------------------------------- Op ----------------------------------- *)

\* Op(char _code, int _arg)
MkOp(c, a) == [code |-> c, arg |-> a]

\* a wrong apply: 'a' overwrites instead of adding
ApplyAddOverwrites(op, node) ==
  CASE op.code = "s" -> [minVal |-> op.arg, maxVal |-> op.arg]
    [] op.code = "a" -> [minVal |-> op.arg, maxVal |-> op.arg]
    [] OTHER -> node

\* Op::apply: the node after the operation (st and end are not used)
Apply(op, node) ==
  CASE op.code = "s" -> [minVal |-> op.arg, maxVal |-> op.arg]
    [] op.code = "a" ->
         [minVal |-> node.minVal + op.arg, maxVal |-> node.maxVal + op.arg]
    [] OTHER -> node

\* a wrong merge: a later 'a' replaces the earlier operation
MergeKeepsLater(self, op) == op

\* Op::merge: self followed by op
Merge(self, op) ==
  IF op.code = "s" THEN op ELSE MkOp(self.code, self.arg + op.arg)

\* the default constructor Op() {} leaves code and arg indeterminate: any
\* char ("z" stands for every char that is neither 's' nor 'a') and any int
GarbageArgs == {0, 1}
NopOps == {MkOp(c, a) : c \in {"s", "a", "z"}, a \in GarbageArgs}

\* the set and add operations main() builds from its input
SetAddOps == {MkOp("s", a) : a \in SetArgs} \cup {MkOp("a", a) : a \in AddArgs}

\* an element of pending that resize() default-constructed and nothing has
\* assigned yet; it is read only where hasPending is true, so never
Unassigned == MkOp("?", 0)

(* ----------------------------- SegTree -------------------------------- *)

\* C++ int division truncates toward zero
CDiv(a, b) == IF a >= 0 THEN a \div b ELSE -((-a) \div b)

Mid(st, end) == CDiv(st + end, 2)

\* a wrong left: the index of a grandchild
LeftOfLeft(node) == 4 * node

Left(node) == 2 * node
Right(node) == 2 * node + 1

\* j < st || i > end
Disjoint(st, end, i, j) == j < st \/ i > end

\* st >= i && end <= j
Covered(st, end, i, j) == st >= i /\ end <= j

\* SegTree(int n): the three arrays after resize(4 * n + 1)
Alloc(n) ==
  [tree |-> [k \in 0..(4 * n) |-> NodeDefault],
   hasPending |-> [k \in 0..(4 * n) |-> FALSE],
   pending |-> [k \in 0..(4 * n) |-> Unassigned]]

RECURSIVE BuildRec(_, _, _, _, _)
RECURSIVE UpdateRec(_, _, _, _, _, _, _)
RECURSIVE ApplyPending(_, _, _, _)
RECURSIVE QueryRec(_, _, _, _, _, _)

\* build(arr, node, st, end)
BuildRec(T, arr, node, st, end) ==
  IF st = end THEN [T EXCEPT !.tree[node] = NodeOf(st, arr[st])]
  ELSE LET T1 == BuildRec(T, arr, Left(node), st, Mid(st, end))
           T2 == BuildRec(T1, arr, Right(node), Mid(st, end) + 1, end)
       IN [T2 EXCEPT !.tree[node] = Join(T2.tree[Left(node)], T2.tree[Right(node)])]

\* a wrong pushdown: the flag is cleared and the children are left alone
ApplyPendingDrops(T, node, st, end) ==
  [T EXCEPT !.hasPending[node] = FALSE]

\* a wrong pushdown: hasPending is not consulted
ApplyPendingAlways(T, node, st, end) ==
  LET T1 == UpdateRec(T, Left(node), st, Mid(st, end), st, end, T.pending[node])
      T2 == UpdateRec(T1, Right(node), Mid(st, end) + 1, end, st, end,
                      T1.pending[node])
  IN [T2 EXCEPT !.hasPending[node] = FALSE]

\* applyPending(node, st, end)
ApplyPending(T, node, st, end) ==
  IF T.hasPending[node]
  THEN LET T1 == UpdateRec(T, Left(node), st, Mid(st, end), st, end, T.pending[node])
           T2 == UpdateRec(T1, Right(node), Mid(st, end) + 1, end, st, end,
                           T1.pending[node])
       IN [T2 EXCEPT !.hasPending[node] = FALSE]
  ELSE T

\* query(node, st, end, i, j): the aggregate returned and the arrays after
QueryRec(T, node, st, end, i, j) ==
  IF Disjoint(st, end, i, j) THEN [res |-> NodeDefault, T |-> T]
  ELSE IF Covered(st, end, i, j) THEN [res |-> T.tree[node], T |-> T]
  ELSE LET T1 == ApplyPending(T, node, st, end)
           p1 == QueryRec(T1, Left(node), st, Mid(st, end), i, j)
           p2 == QueryRec(p1.T, Right(node), Mid(st, end) + 1, end, i, j)
       IN [res |-> Join(p1.res, p2.res), T |-> p2.T]

\* update(node, st, end, i, j, op)
UpdateRec(T, node, st, end, i, j, op) ==
  IF Disjoint(st, end, i, j) THEN T
  ELSE IF st = end THEN [T EXCEPT !.tree[node] = Apply(op, @)]
  ELSE IF Covered(st, end, i, j)
  THEN [T EXCEPT !.tree[node] = Apply(op, @),
                 !.pending[node] = IF T.hasPending[node] THEN Merge(@, op) ELSE op,
                 !.hasPending[node] = TRUE]
  ELSE LET T1 == ApplyPending(T, node, st, end)
           T2 == IF i <= Mid(st, end)
                 THEN UpdateRec(T1, Left(node), st, Mid(st, end), i, j, op)
                 ELSE T1
           T3 == IF j > Mid(st, end)
                 THEN UpdateRec(T2, Right(node), Mid(st, end) + 1, end, i, j, op)
                 ELSE T2
       IN [T3 EXCEPT !.tree[node] = Join(T3.tree[Left(node)], T3.tree[Right(node)])]

\* build(int* arr)
Build(T, n, arr) == BuildRec(T, arr, 1, 0, n - 1)

\* Node query(int i, int j)
Query(T, n, i, j) == QueryRec(T, 1, 0, n - 1, i, j)

\* void update(int i, int j, Op op)
Update(T, n, i, j, op) == UpdateRec(T, 1, 0, n - 1, i, j, op)

\* build(arr, 1, 0, n - 1) indexes outside the arrays of 4n + 1 elements or
\* does not return: a call on a position past the arrays either writes
\* tree[node] there (a leaf), or recurses into positions further out
RECURSIVE BuildFaults(_, _, _, _)
BuildFaults(cap, node, st, end) ==
  IF node > cap THEN TRUE
  ELSE IF st = end THEN FALSE
  ELSE \/ BuildFaults(cap, Left(node), st, Mid(st, end))
       \/ BuildFaults(cap, Right(node), Mid(st, end) + 1, end)

(* ------------------------- the public calls --------------------------- *)

cur == [tree |-> tree, hasPending |-> hasPending, pending |-> pending]

NoNode == [minVal |-> 0, maxVal |-> 0]

\* the record of a public call: its arguments, how op was constructed
\* ("Op(c,a)" or "Op()"), the aggregate returned and how the call ended
NoCall ==
  [kind |-> "none", n |-> 0, len |-> 0, i |-> 0, j |-> 0, op |-> Unassigned,
   ctor |-> "none", res |-> NoNode, outcome |-> "none"]

\* with rec the call c is recorded in last and the arrays it found in pre
Record(rec, c) ==
  IF rec THEN last' = c /\ pre' = cur ELSE UNCHANGED <<last, pre>>

ValidRange(n, i, j) == 0 <= i /\ i <= j /\ j < n

\* what an out-of-bounds access or an unbounded recursion ends in
FaultOutcomes == {"segfault", "stack_overflow"}

\* the element a set or an add leaves where it found v
ElemAfter(op, v) == IF op.code = "s" THEN op.arg ELSE v + op.arg

\* main() before line 159: no tree yet
Init ==
  /\ status = "new"
  /\ size = 0
  /\ tree = << >>
  /\ hasPending = << >>
  /\ pending = << >>
  /\ last = NoCall
  /\ pre = [tree |-> << >>, hasPending |-> << >>, pending |-> << >>]
  /\ val = << >>
  /\ steps = 0

\* how SegTree(int n, int* arr) ends on an array of len elements.  n < 0
\* makes 4 * n + 1 negative, and resize() of that many elements throws
\* std::length_error; build never looks at len, and reads past the array
\* when len < n.
ConstructOutcomes(n, len) ==
  IF n < 0 THEN {"length_error"}
  ELSE IF BuildFaults(4 * n, 1, 0, n - 1) THEN FaultOutcomes
  ELSE IF len < n THEN {"ok", "segfault"}
  ELSE {"ok"}

\* SegTree(int n, int* arr), where the memory at arr holds mem
ConstructWith(n, len, mem, rec) ==
  /\ status = "new"
  /\ status' \in ConstructOutcomes(n, len)
  /\ steps' = steps
  /\ IF n < 0
     THEN UNCHANGED <<size, tree, hasPending, pending, val>>
     ELSE IF BuildFaults(4 * n, 1, 0, n - 1)
     THEN /\ size' = n
          /\ tree' = Alloc(n).tree
          /\ hasPending' = Alloc(n).hasPending
          /\ pending' = Alloc(n).pending
          /\ val' = val
     ELSE LET T == Build(Alloc(n), n, mem)
          IN /\ size' = n
             /\ tree' = T.tree
             /\ hasPending' = T.hasPending
             /\ pending' = T.pending
             /\ val' = [k \in 0..(n - 1) |-> mem[k]]
  /\ Record(rec, [NoCall EXCEPT !.kind = "construct", !.n = n, !.len = len,
                                !.outcome = status'])

\* tree.query(i, j)
QueryWith(i, j, rec) ==
  /\ status = "ok"
  /\ LET r == Query(cur, size, i, j)
     IN /\ tree' = r.T.tree
        /\ hasPending' = r.T.hasPending
        /\ pending' = r.T.pending
        /\ Record(rec, [NoCall EXCEPT !.kind = "query", !.n = size, !.i = i, !.j = j,
                                      !.res = r.res, !.outcome = "returned"])
  /\ UNCHANGED <<status, size, val, steps>>

\* tree.update(i, j, op)
UpdateWith(i, j, op, ctor, rec) ==
  /\ status = "ok"
  /\ steps < MaxOps
  /\ steps' = steps + 1
  /\ LET T == Update(cur, size, i, j, op)
     IN /\ tree' = T.tree
        /\ hasPending' = T.hasPending
        /\ pending' = T.pending
  /\ Record(rec, [NoCall EXCEPT !.kind = "update", !.n = size, !.i = i, !.j = j,
                                !.op = op, !.ctor = ctor, !.outcome = "returned"])
  /\ val' = IF ValidRange(size, i, j) /\ ctor = "Op(c,a)"
            THEN [k \in 0..(size - 1) |->
                    IF i <= k /\ k <= j THEN ElemAfter(op, val[k]) ELSE val[k]]
            ELSE val
  /\ UNCHANGED <<status, size>>

SeedLens(n) == {l \in {n - 1, n, n + 1} : l >= 0}

Ranges(n) == {r \in (0..(n - 1)) \X (0..(n - 1)) : r[1] <= r[2]}

\* intervals with i = -1, with j = n, or with i > j
BadRanges(n) ==
  {<<-1, 0>>, <<-1, n>>, <<n - 1, n>>} \cup
  {r \in (0..(n - 1)) \X (0..(n - 1)) : r[1] > r[2]}

Construct(rec) ==
  \E n \in (-1)..MaxN : \E len \in SeedLens(n) : \E mem \in SeedArrays :
    ConstructWith(n, len, mem, rec)

QueryCall(rec) == \E r \in Ranges(size) : QueryWith(r[1], r[2], rec)

UpdateCall(rec) ==
  \E r \in Ranges(size) : \E op \in SetAddOps :
    UpdateWith(r[1], r[2], op, "Op(c,a)", rec)

QueryBad(rec) == \E r \in BadRanges(size) : QueryWith(r[1], r[2], rec)

UpdateBad(rec) ==
  \E r \in BadRanges(size) : \E op \in SetAddOps :
    UpdateWith(r[1], r[2], op, "Op(c,a)", rec)

UpdateNop(rec) ==
  \E r \in Ranges(size) : \E op \in NopOps : UpdateWith(r[1], r[2], op, "Op()", rec)

\* construction, and queries and set/add updates over valid intervals
Next == Construct(FALSE) \/ QueryCall(FALSE) \/ UpdateCall(FALSE)

Spec == Init /\ [][Next]_vars

\* the calls main() can make: any two ints as the interval
NextAny ==
  \/ Construct(FALSE)
  \/ QueryCall(FALSE)
  \/ UpdateCall(FALSE)
  \/ QueryBad(FALSE)
  \/ UpdateBad(FALSE)

SpecAny == Init /\ [][NextAny]_vars

\* the calls of NextAny, recorded
NextAnyRec ==
  \/ Construct(TRUE)
  \/ QueryCall(TRUE)
  \/ UpdateCall(TRUE)
  \/ QueryBad(TRUE)
  \/ UpdateBad(TRUE)

SpecAnyRec == Init /\ [][NextAnyRec]_vars

\* the calls a caller of the template can make over valid intervals, Op()
\* as the operation too, recorded
NextNop == Construct(TRUE) \/ QueryCall(TRUE) \/ UpdateCall(TRUE) \/ UpdateNop(TRUE)

SpecNop == Init /\ [][NextNop]_vars

\* seeds over the whole of int: 2 * INF = 2000000000 is an int, and so is
\* every value the bounded runs add to it (no run overflows)
IntSeedArrays ==
  {[k \in 0..(MaxN - 1) |-> 2 * INF],
   [k \in 0..(MaxN - 1) |-> IF k % 2 = 0 THEN -2 * INF ELSE 0]}

ConstructInt ==
  \E n \in 1..MaxN : \E mem \in IntSeedArrays : ConstructWith(n, n, mem, FALSE)

NextInt == ConstructInt \/ QueryCall(FALSE) \/ UpdateCall(FALSE)

SpecInt == Init /\ [][NextInt]_vars

(* ------------------- positions of the implicit tree ------------------- *)

\* the positions build(arr, node, st, end) visits, each with its range
RECURSIVE Positions(_, _, _)
Positions(node, st, end) ==
  IF st = end THEN {<<node, st, end>>}
  ELSE {<<node, st, end>>}
       \cup Positions(Left(node), st, Mid(st, end))
       \cup Positions(Right(node), Mid(st, end) + 1, end)

AllPositions == Positions(1, 0, size - 1)

\* the positions above node: left and right make node \div 2 its parent
RECURSIVE Ancestors(_)
Ancestors(node) ==
  IF node <= 1 THEN {} ELSE {node \div 2} \cup Ancestors(node \div 2)

Inside(r, i, j) == i <= r[1] /\ r[2] <= j
Outside(r, i, j) == r[2] < i \/ r[1] > j

SameQueries(T1, T2) ==
  \A q \in Ranges(size) :
    Query(T1, size, q[1], q[2]).res = Query(T2, size, q[1], q[2]).res

\* position node holds in T1 what it holds in T2
SameAt(T1, T2, node) ==
  /\ T1.tree[node] = T2.tree[node]
  /\ T1.pending[node] = T2.pending[node]
  /\ T1.hasPending[node] = T2.hasPending[node]

(* ------------------------------ claims -------------------------------- *)

RECURSIVE SplitJoins(_, _, _, _, _, _)
SplitJoins(T, n, acc, hasAcc, i, j) ==
  UNION { LET r == Query(T, n, i, k)
              a == IF hasAcc THEN Join(acc, r.res) ELSE r.res
          IN IF k = j THEN {a} ELSE SplitJoins(r.T, n, a, TRUE, k + 1, j)
          : k \in i..j }

C4_MergeIsSequence ==
  status = "ok" =>
    \A A \in SetAddOps \cup NopOps : \A B \in SetAddOps \cup NopOps :
      \A r \in Ranges(size) :
        SameQueries(Update(Update(cur, size, r[1], r[2], A), size, r[1], r[2], B),
                    Update(cur, size, r[1], r[2], Merge(A, B)))

\* C5: a query or update whose interval violates 0 <= i <= j < n fails with
\* OutOfRangeError and leaves tree, hasPending and pending as they were.
C5_BadRangeRejected ==
  (last.kind \in {"query", "update"} /\ ~ValidRange(last.n, last.i, last.j)) =>
    /\ last.outcome = "OutOfRangeError"
    /\ cur = pre

\* C6: construction with n <= 0, or with a seed array whose length is not n,
\* fails with InvalidSizeError.
C6_BadSizeRejected ==
  (last.kind = "construct" /\ (last.n <= 0 \/ last.len # last.n)) =>
    last.outcome = "InvalidSizeError"

\* C7: after update(i, j, Op()) over a valid range, every valid query
\* returns the aggregate it returned before the update.
C7_NopChangesNothing ==
  (/\ status = "ok"
   /\ last.kind = "update"
   /\ last.ctor = "Op()"
   /\ ValidRange(size, last.i, last.j))
    => SameQueries(cur, pre)

\* C8: Node() is neutral for join, on the left and on the right, for every
\* aggregate the tree holds after build from int seeds and set/add updates.
C8_NodeNeutral ==
  status = "ok" =>
    \A p \in AllPositions :
      /\ Join(NodeDefault, tree[p[1]]) = tree[p[1]]
      /\ Join(tree[p[1]], NodeDefault) = tree[p[1]]

C10_DisjointUntouched ==
  status = "ok" =>
    \A u \in Ranges(size) : \A op \in SetAddOps :
      LET T == Update(cur, size, u[1], u[2], op)
      IN \A p \in AllPositions :
           Disjoint(p[2], p[3], u[1], u[2]) => SameAt(T, cur, p[1])

\* C10 as amended: in every reachable tree state, a valid update(i, j, op)
\* leaves the aggregate, the pending operation and the flag of every
\* position disjoint from [i, j] as they were, when no ancestor of the
\* position holds a pending operation as the call starts.
C10_DisjointUntouchedNoPendingAbove ==
  status = "ok" =>
    \A u \in Ranges(size) : \A op \in SetAddOps :
      LET T == Update(cur, size, u[1], u[2], op)
      IN \A p \in AllPositions :
           (/\ Disjoint(p[2], p[3], u[1], u[2])
            /\ \A a \in Ancestors(p[1]) : ~hasPending[a])
             => SameAt(T, cur, p[1])

\* three elements or more, an operation pending on [0, 1] and none at the
\* root: update(0, 0, op) changes position [1, 1], which is below the pending
\* operation, and leaves position [2, 2], which is not
C10_Witness ==
  /\ status = "ok"
  /\ size >= 3
  /\ hasPending[2]
  /\ ~hasPending[1]
  /\ LET T == Update(cur, size, 0, 0, MkOp("a", 1))
     IN /\ ~SameAt(T, cur, Right(2))
        /\ SameAt(T, cur, 3)

(* ---------------------- the indices the calls use --------------------- *)

\* the int arguments tried as i and j: the indices, and two ints on each
\* side of them
ArgInts(n) == (-2)..(n + 1)

\* the indices build(arr, node, st, end) reads or writes in tree; past cap
\* the call is followed no further
RECURSIVE BuildTouched(_, _, _, _)
BuildTouched(cap, node, st, end) ==
  IF node > cap \/ st = end THEN {node}
  ELSE BuildTouched(cap, Left(node), st, Mid(st, end))
       \cup BuildTouched(cap, Right(node), Mid(st, end) + 1, end)
       \cup {node, Left(node), Right(node)}

RECURSIVE UpdateTouched(_, _, _, _, _, _, _)

\* the indices applyPending(node, st, end) reads or writes in hasPending,
\* pending and, through update, tree
ApplyPendingTouched(T, node, st, end) ==
  IF T.hasPending[node]
  THEN LET T1 == UpdateRec(T, Left(node), st, Mid(st, end), st, end, T.pending[node])
       IN {node}
          \cup UpdateTouched(T, Left(node), st, Mid(st, end), st, end, T.pending[node])
          \cup UpdateTouched(T1, Right(node), Mid(st, end) + 1, end, st, end,
                             T1.pending[node])
  ELSE {node}

\* the indices update(node, st, end, i, j, op) reads or writes
UpdateTouched(T, node, st, end, i, j, op) ==
  IF Disjoint(st, end, i, j) THEN {}
  ELSE IF st = end THEN {node}
  ELSE IF Covered(st, end, i, j) THEN {node}
  ELSE LET T1 == ApplyPending(T, node, st, end)
           T2 == IF i <= Mid(st, end)
                 THEN UpdateRec(T1, Left(node), st, Mid(st, end), i, j, op)
                 ELSE T1
       IN ApplyPendingTouched(T, node, st, end)
          \cup (IF i <= Mid(st, end)
                THEN UpdateTouched(T1, Left(node), st, Mid(st, end), i, j, op)
                ELSE {})
          \cup (IF j > Mid(st, end)
                THEN UpdateTouched(T2, Right(node), Mid(st, end) + 1, end, i, j, op)
                ELSE {})
          \cup {node, Left(node), Right(node)}

\* the indices query(node, st, end, i, j) reads or writes
RECURSIVE QueryTouched(_, _, _, _, _, _)
QueryTouched(T, node, st, end, i, j) ==
  IF Disjoint(st, end, i, j) THEN {}
  ELSE IF Covered(st, end, i, j) THEN {node}
  ELSE LET T1 == ApplyPending(T, node, st, end)
           p1 == QueryRec(T1, Left(node), st, Mid(st, end), i, j)
       IN ApplyPendingTouched(T, node, st, end)
          \cup QueryTouched(T1, Left(node), st, Mid(st, end), i, j)
          \cup QueryTouched(p1.T, Right(node), Mid(st, end) + 1, end, i, j)

\* C11: for n >= 1, every index that build, and query and update (with
\* applyPending) on any two ints i and j, read or write in tree, hasPending
\* or pending lies in [1, 4n], inside the arrays of 4n + 1 elements.
C11_IndicesInsideArrays ==
  size >= 1 =>
    /\ BuildTouched(4 * size, 1, 0, size - 1) \subseteq 1..(4 * size)
    /\ status = "ok" =>
         \A i \in ArgInts(size) : \A j \in ArgInts(size) :
           /\ QueryTouched(cur, 1, 0, size - 1, i, j) \subseteq 1..(4 * size)
           /\ \A op \in SetAddOps :
                UpdateTouched(cur, 1, 0, size - 1, i, j, op) \subseteq 1..(4 * size)

\* three elements or more, operations pending at the root and on [0, 1]:
\* update(-1, 0, op) and query(1, n) push both down and reach the deepest
\* positions, and update(2, 0, op) still visits the root and its children
C11_Witness ==
  /\ status = "ok"
  /\ size >= 3
  /\ hasPending[1]
  /\ hasPending[2]
  /\ Right(2) \in UpdateTouched(cur, 1, 0, size - 1, -1, 0, MkOp("a", 1))
  /\ Right(2) \in QueryTouched(cur, 1, 0, size - 1, 1, size)
  /\ {1, 2, 3} \subseteq UpdateTouched(cur, 1, 0, size - 1, 2, 0, MkOp("a", 1))
  /\ Right(2) \in BuildTouched(4 * size, 1, 0, size - 1)

====
